---- MODULE Spec2Model ----
(***************************************************************************)
(* Model of src/main.py: the daily Smartprix scraper.  One run of main()   *)
(* fetches the sitemap, diffs it against the progress file, fetches a      *)
(* batch of products, rewrites the CSV and saves the progress file.  The   *)
(* model runs main() again and again against the same two files.           *)
(***************************************************************************)
EXTENDS Integers, Sequences, FiniteSets, TLC

(***************************************************************************)
(* Bounds of the model.                                                    *)
(***************************************************************************)
\* longest sitemap (number of <url> elements) the remote site serves
MaxFeed == 3
\* BATCH_SIZE (main.py:21) is 100; the model scales it down so that a
\* sitemap of MaxFeed entries can exceed it
BATCH_SIZE == 2
\* a new run is started only while a full batch more keeps the CSV within
\* this many rows
MaxRows == 4
\* largest batch limit of the specification that exercises the diff alone
MaxLimit == 3

(***************************************************************************)
(* Python / JSON values.  Every value is a record with a tag t, so that    *)
(* any two values can be compared.                                         *)
(***************************************************************************)
JAbsent == [t |-> "absent"]                 \* the key is not in the dict
JNull == [t |-> "null"]                     \* None / null / NaN
JStr(s) == [t |-> "str", s |-> s]
JNum(n) == [t |-> "num", n |-> n]
JList(l) == [t |-> "list", l |-> l]
JObj(f) == [t |-> "obj", f |-> f]           \* f: a function from keys (strings)
EmptyObj == [t |-> "obj", f |-> <<>>]       \* {} (no keys)

\* d.get(key, default) on a dict d
DictGet(d, key, default) == IF key \in DOMAIN d.f THEN d.f[key] ELSE default
\* d.get(key): None when the key is absent
DictGetNone(d, key) == DictGet(d, key, JNull)
\* Python truthiness of a scalar: None, "" and 0 are falsy
Truthy(v) ==
    CASE v.t = "null" -> FALSE
      [] v.t = "absent" -> FALSE
      [] v.t = "str" -> v.s /= ""
      [] v.t = "num" -> v.n /= 0
      [] v.t = "list" -> v.l /= <<>>
      [] v.t = "obj" -> DOMAIN v.f /= {}
\* f"{v}" of a scalar
Format(v) ==
    CASE v.t = "str" -> v.s
      [] v.t = "num" -> ToString(v.n)
      [] OTHER -> "None"
\* json.dumps of a scalar
JsonScalar(v) ==
    CASE v.t = "str" -> "\"" \o v.s \o "\""
      [] v.t = "num" -> ToString(v.n)
      [] OTHER -> "null"

(***************************************************************************)
(* Ordered dicts (a flat record): a sequence of <<key, value>> pairs with  *)
(* pairwise distinct keys, in insertion order.                             *)
(***************************************************************************)
Keys(rec) == {rec[j][1] : j \in 1..Len(rec)}
KeySeq(rec) == [j \in 1..Len(rec) |-> rec[j][1]]
Lookup(rec, k) == IF k \in Keys(rec)
                  THEN rec[CHOOSE j \in 1..Len(rec) : rec[j][1] = k][2]
                  ELSE JNull
\* result[k] = v: an existing key keeps its position and takes the new value
DictSet(rec, k, v) ==
    IF k \in Keys(rec)
    THEN [j \in 1..Len(rec) |-> IF rec[j][1] = k THEN <<k, v>> ELSE rec[j]]
    ELSE Append(rec, <<k, v>>)
RECURSIVE DictUpdate(_, _)
\* result.update(other)
DictUpdate(rec, other) ==
    IF other = <<>> THEN rec
    ELSE DictUpdate(DictSet(rec, other[1][1], other[1][2]), Tail(other))

(***************************************************************************)
(* parse_product (main.py:99-129).  The result is [ok, rec]: ok = FALSE    *)
(* when the Python code raises (AttributeError on None.get, TypeError on   *)
(* iterating None), rec the flat record otherwise.                         *)
(***************************************************************************)
Raised == [ok |-> FALSE, rec |-> <<>>]
Returned(rec) == [ok |-> TRUE, rec |-> rec]

RECURSIVE SpecLoop(_, _, _)
\* main.py:110-115: the inner loop over one category's items
SpecLoop(items, title, result) ==
    IF items = <<>> THEN Returned(result)
    ELSE LET spec == Head(items) IN
         IF spec.t /= "obj" THEN Raised
         ELSE LET spec_title == DictGetNone(spec, "title")
                  spec_description == DictGetNone(spec, "description")
                  col_name == Format(title) \o "." \o Format(spec_title)
              IN  SpecLoop(Tail(items), title,
                           IF Truthy(spec_title)
                           THEN DictSet(result, col_name, spec_description)
                           ELSE result)

RECURSIVE CategoryLoop(_, _)
\* main.py:106-115: the loop over fullSpecs
CategoryLoop(full_specs, result) ==
    IF full_specs = <<>> THEN Returned(result)
    ELSE LET category == Head(full_specs) IN
         IF category.t /= "obj" THEN Raised
         ELSE LET title == DictGetNone(category, "title")
                  items == DictGet(category, "items", JList(<<>>))
              IN  IF ~Truthy(title) THEN CategoryLoop(Tail(full_specs), result)
                  ELSE IF items.t /= "list" THEN Raised
                  ELSE LET inner == SpecLoop(items.l, title, result)
                       IN  IF inner.ok
                           THEN CategoryLoop(Tail(full_specs), inner.rec)
                           ELSE Raised

RECURSIVE RelatedJson(_)
\* main.py:124-127: the elements of the dumped list, joined by ", "
RelatedJson(products) ==
    IF products = <<>> THEN ""
    ELSE LET x == Head(products)
             one == "{\"Name\": " \o JsonScalar(DictGetNone(x, "name"))
                    \o ", \"Price\": " \o JsonScalar(DictGetNone(x, "price")) \o "}"
         IN  IF Tail(products) = <<>> THEN one
             ELSE one \o ", " \o RelatedJson(Tail(products))

parse_product(data, lastmod) ==
    IF data.t /= "obj" THEN Raised
    ELSE LET item == DictGet(data, "item", EmptyObj) IN
    IF item.t /= "obj" THEN Raised
    ELSE LET full_specs == DictGet(item, "fullSpecs", JList(<<>>)) IN
    IF full_specs.t /= "list" THEN Raised
    ELSE LET flat == CategoryLoop(full_specs.l, <<>>)
             brand == DictGet(item, "brand", EmptyObj)
             related == DictGet(item, "relatedItems", EmptyObj)
         IN
    IF ~flat.ok \/ brand.t /= "obj" \/ related.t /= "obj" THEN Raised
    ELSE LET products == DictGet(related, "products", JList(<<>>)) IN
    IF products.t /= "list" THEN Raised
    ELSE IF \E j \in 1..Len(products.l) : products.l[j].t /= "obj" THEN Raised
    ELSE Returned(DictUpdate(flat.rec, <<
            <<"Name", DictGetNone(item, "name")>>,
            <<"Brand", DictGetNone(brand, "name")>>,
            <<"Price", DictGetNone(item, "price")>>,
            <<"Price Drop", DictGetNone(item, "priceDrop")>>,
            <<"Price Drop Amount", DictGetNone(item, "priceDropAmount")>>,
            <<"Last modified", lastmod>>,
            <<"Related Items", JStr("[" \o RelatedJson(products.l) \o "]")>> >>))

(***************************************************************************)
(* The remote site.  A URL is the sequence of its path segments after the  *)
(* host; <<>> stands for a <url> element without <loc>.                    *)
(***************************************************************************)
PRODUCT_TYPE == "mobiles"

\* the <url> elements a sitemap is made of
SitemapElements ==
    { [url |-> <<"mobiles", "p1">>, lastmod |-> JStr("2024-01-01")],
      [url |-> <<"mobiles", "p2">>, lastmod |-> JNull],
      [url |-> <<"mobiles", "p3">>, lastmod |-> JStr("2024-03-03")],
      \* a second location of product p1 (same path suffix)
      [url |-> <<"in", "mobiles", "p1">>, lastmod |-> JStr("2024-02-02")],
      \* not a product page of this product type
      [url |-> <<"mobiles", "p2", "reviews">>, lastmod |-> JNull],
      \* no <loc>
      [url |-> <<>>, lastmod |-> JNull] }

RECURSIVE SeqsUpTo(_, _)
\* the sequences of distinct elements of S of length at most n
SeqsUpTo(S, n) ==
    IF n = 0 THEN {<<>>}
    ELSE LET shorter == SeqsUpTo(S, n - 1)
         IN  shorter \cup
             UNION {{Append(q, x) : x \in {y \in S : \A j \in 1..Len(q) : q[j] /= y}}
                    : q \in shorter}

Sitemaps == SeqsUpTo(SitemapElements, MaxFeed)

\* fetch_sitemap (main.py:60-76): the entries whose url is not None or ""
fetch_sitemap(doc) == SelectSeq(doc, LAMBDA entry : entry.url /= <<>>)

\* re.search(r"/" + PRODUCT_TYPE + r"/[^/]+$", url): the url ends in a segment
\* PRODUCT_TYPE followed by one non-empty segment
Matches(url) ==
    /\ Len(url) >= 2
    /\ url[Len(url) - 1] = PRODUCT_TYPE
    /\ url[Len(url)] /= ""
\* match.group(0)
MatchGroup0(url) == "/" \o url[Len(url) - 1] \o "/" \o url[Len(url)]

\* [extract_endpoint(u) for u in urls if extract_endpoint(u)] (main.py:78-80, 156)
Endpoints(urls) ==
    LET hits == SelectSeq(urls, LAMBDA u : Matches(u.url))
    IN  [j \in 1..Len(hits) |->
            [url |-> MatchGroup0(hits[j].url), lastmod |-> hits[j].lastmod]]

\* every endpoint the sitemaps of the model can name
AllEndpointUrls == {MatchGroup0(e.url) : e \in {x \in SitemapElements : Matches(x.url)}}

\* The page-info document the API serves for an endpoint.
Catalog(endpoint) ==
    CASE endpoint = "/mobiles/p1" ->
           JObj([item |-> JObj([
               name |-> JStr("Phone 1"),
               brand |-> JObj([name |-> JStr("Acme")]),
               price |-> JNum(100),
               fullSpecs |-> JList(<<
                   JObj([title |-> JStr("General"),
                         items |-> JList(<<JObj([title |-> JStr("OS"),
                                                 description |-> JStr("Android")])>>)]),
                   JObj([title |-> JStr("Display"),
                         items |-> JList(<<JObj([title |-> JStr("Size"),
                                                 description |-> JStr("6.1")])>>)]) >>),
               relatedItems |-> JObj([products |-> JList(<<
                   JObj([name |-> JStr("Phone 2"), price |-> JNum(200)]) >>)]) ])])
      [] endpoint = "/mobiles/p2" ->
           JObj([item |-> JObj([
               name |-> JStr("Phone 2"),
               price |-> JNum(200),
               priceDrop |-> JNull,
               fullSpecs |-> JList(<<
                   JObj([items |-> JList(<<JObj([title |-> JStr("OS"),
                                                 description |-> JStr("iOS")])>>)]),
                   JObj([title |-> JStr("Battery"),
                         items |-> JList(<<JObj([title |-> JStr("Capacity"),
                                                 description |-> JStr("5000")]),
                                           JObj([title |-> JStr(""),
                                                 description |-> JStr("x")])>>)]) >>) ])])
      [] OTHER ->
           JObj([item |-> JObj([name |-> JStr("Phone 3"), price |-> JNum(300)])])

\* a response whose item is null: parse_product raises on it
NullItemDoc == JObj([item |-> JNull])

\* what session.get + resp.json() can produce for an endpoint (main.py:92-94):
\* an exception, or a document
Responses(endpoint) ==
    { [ok |-> FALSE, data |-> JNull],
      [ok |-> TRUE, data |-> Catalog(endpoint)],
      [ok |-> TRUE, data |-> NullItemDoc] }

\* the column names of the model in lexicographic (code point) order, the key
\* of sorted() at main.py:196
ColOrder == << "Battery.Capacity", "Brand", "Display.Size", "General.OS",
               "Last modified", "Name", "Price", "Price Drop",
               "Price Drop Amount", "Related Items" >>
ColRank(c) == CHOOSE j \in 1..Len(ColOrder) : ColOrder[j] = c
\* sorted(columns)
Sorted(cols) == SelectSeq(ColOrder, LAMBDA c : \E j \in 1..Len(cols) : cols[j] = c)

(***************************************************************************)
(* The progress file (main.py:134-147).  It is absent, unparseable, or a   *)
(* JSON array of strings.                                                  *)
(***************************************************************************)
AbsentFile == [kind |-> "absent"]
CorruptFile == [kind |-> "corrupt"]
JsonFile(list) == [kind |-> "json", list |-> list]

\* a load that skips the first identifier of the file
load_progress_skips_first(file) ==
    IF file.kind = "json"
    THEN {file.list[j] : j \in 2..Len(file.list)}
    ELSE {}
\* a load that forgets what was persisted
load_progress_forgets(file) == {}
\* load_progress: set(json.load(f)); set() when the file is absent or
\* json.load raises
load_progress(file) ==
    IF file.kind = "json" THEN {file.list[j] : j \in 1..Len(file.list)} ELSE {}

RECURSIVE Orderings(_)
\* list(processed_urls): the elements of the set, each once, in some order
Orderings(S) ==
    IF S = {} THEN {<<>>}
    ELSE UNION {{<<x>> \o q : q \in Orderings(S \ {x})} : x \in S}

\* save_progress: json.dump(list(processed_urls), f) replaces the file
save_progress(processed) == {JsonFile(list) : list \in Orderings(processed)}

(***************************************************************************)
(* The CSV file and pandas (main.py:184-203).  A file is absent, of size   *)
(* 0, unparseable, or a table: a header and rows of cell texts.  A data    *)
(* frame is its columns and its rows, each row a flat record; a key a row  *)
(* lacks is NaN.                                                           *)
(***************************************************************************)
EmptyFile == [kind |-> "empty"]
TableFile(header, rows) == [kind |-> "table", header |-> header, rows |-> rows]

\* os.path.exists(CSV_FILE) and os.path.getsize(CSV_FILE) > 0
ExistsNonEmpty(file) == file.kind \in {"table", "corrupt"}

\* the keys of the first record only
FirstRecordOnly(records, cols) ==
    IF records = <<>> THEN cols ELSE cols \o KeySeq(Head(records))
RECURSIVE FirstSeen(_, _)
\* the union of the records' keys in order of first appearance
FirstSeen(records, cols) ==
    IF records = <<>> THEN cols
    ELSE FirstSeen(Tail(records),
                   cols \o SelectSeq(KeySeq(Head(records)),
                                     LAMBDA k : \A j \in 1..Len(cols) : cols[j] /= k))

\* pd.json_normalize(all_results, sep=".") of flat records
json_normalize(records) == [columns |-> FirstSeen(records, <<>>), rows |-> records]

\* the text to_csv writes for a value: nothing for None / NaN
CellText(v) ==
    CASE v.t = "str" -> v.s
      [] v.t = "num" -> ToString(v.n)
      [] OTHER -> ""
\* the value read_csv gives a cell: NaN for an empty cell
CellValue(text) == IF text = "" THEN JNull ELSE JStr(text)

\* df.to_csv(CSV_FILE, index=False)
to_csv(df) ==
    TableFile(df.columns,
              [r \in 1..Len(df.rows) |->
                  [j \in 1..Len(df.columns) |->
                      CellText(Lookup(df.rows[r], df.columns[j]))]])

\* pd.read_csv(CSV_FILE) of a table
read_csv(file) ==
    [columns |-> file.header,
     rows |-> [r \in 1..Len(file.rows) |->
                  [j \in 1..Len(file.header) |->
                      <<file.header[j], CellValue(file.rows[r][j])>>]]]

\* a concat that keeps the new rows only
concat_new_only(a, b) ==
    [columns |-> a.columns \o
                 SelectSeq(b.columns,
                           LAMBDA c : \A j \in 1..Len(a.columns) : a.columns[j] /= c),
     rows |-> b.rows]
\* a concat that puts the new rows before the rows read back
concat_new_first(a, b) ==
    [columns |-> a.columns \o
                 SelectSeq(b.columns,
                           LAMBDA c : \A j \in 1..Len(a.columns) : a.columns[j] /= c),
     rows |-> b.rows \o a.rows]
\* pd.concat([a, b], ignore_index=True): a's columns, then b's new ones
concat(a, b) ==
    [columns |-> a.columns \o
                 SelectSeq(b.columns,
                           LAMBDA c : \A j \in 1..Len(a.columns) : a.columns[j] /= c),
     rows |-> a.rows \o b.rows]

\* columns left in the order concat gave them
reindex_unsorted(df) == df
\* df.reindex(sorted(df.columns), axis=1)
reindex_sorted(df) == [columns |-> Sorted(df.columns), rows |-> df.rows]

\* a rewrite that always replaces the store by the new rows
WriteStoreNewOnly(file, all_results) == to_csv(json_normalize(all_results))
\* the file main.py:185-203 leaves for an existing parseable or missing store
WriteStore(file, all_results) ==
    LET df_new == json_normalize(all_results) IN
    IF ExistsNonEmpty(file)
    THEN to_csv(reindex_sorted(concat(read_csv(file), df_new)))
    ELSE to_csv(df_new)

RowCount(file) == IF file.kind = "table" THEN Len(file.rows) ELSE 0
Header(file) == IF file.kind = "table" THEN file.header ELSE <<>>
HeaderSet(file) == {Header(file)[j] : j \in 1..Len(Header(file))}

(***************************************************************************)
(* The encoder (main.py:31-48).  Text is a sequence of code points; a      *)
(* descriptor is None, an int, a str, a list or a dict whose members keep  *)
(* their insertion order.                                                  *)
(***************************************************************************)
\* Aa: "0123456789ABCDEFGHIJKLMNOPQRSTUVWXYZabcdefghijklmnopqrstuvwxyz-_"
Aa == << 48, 49, 50, 51, 52, 53, 54, 55, 56, 57,
         65, 66, 67, 68, 69, 70, 71, 72, 73, 74, 75, 76, 77,
         78, 79, 80, 81, 82, 83, 84, 85, 86, 87, 88, 89, 90,
         97, 98, 99, 100, 101, 102, 103, 104, 105, 106, 107, 108, 109,
         110, 111, 112, 113, 114, 115, 116, 117, 118, 119, 120, 121, 122,
         45, 95 >>

JText(cps) == [t |-> "text", cps |-> cps]           \* a str, by code points
JDict(members) == [t |-> "dict", members |-> members] \* <<key text, value>> pairs

\* `not e`
Falsy(e) ==
    CASE e.t = "null" -> TRUE
      [] e.t = "num" -> e.n = 0
      [] e.t = "text" -> e.cps = <<>>
      [] e.t = "list" -> e.l = <<>>
      [] e.t = "dict" -> e.members = <<>>

RECURSIVE Digits(_)
\* str(n) of a non-negative int
Digits(n) == IF n < 10 THEN <<48 + n>> ELSE Append(Digits(n \div 10), 48 + (n % 10))
\* one lower-case hexadecimal digit
HexDigit(d) == IF d < 10 THEN 48 + d ELSE 87 + d
\* '\\u{0:04x}'.format(n)
Hex4(n) == << 92, 117, HexDigit((n \div 4096) % 16), HexDigit((n \div 256) % 16),
              HexDigit((n \div 16) % 16), HexDigit(n % 16) >>
\* json.dumps of one character of a str (ensure_ascii is left at True): the
\* short escapes, the printable ASCII characters as they are, \uXXXX for the
\* rest, a surrogate pair above the basic plane
EscapeChar(c) ==
    IF c = 34 THEN <<92, 34>>
    ELSE IF c = 92 THEN <<92, 92>>
    ELSE IF c = 10 THEN <<92, 110>>
    ELSE IF c = 13 THEN <<92, 114>>
    ELSE IF c = 9 THEN <<92, 116>>
    ELSE IF c = 8 THEN <<92, 98>>
    ELSE IF c = 12 THEN <<92, 102>>
    ELSE IF c >= 32 /\ c <= 126 THEN <<c>>
    ELSE IF c < 65536 THEN Hex4(c)
    ELSE Hex4(55296 + ((c - 65536) \div 1024)) \o Hex4(56320 + ((c - 65536) % 1024))

RECURSIVE EscapeAll(_)
EscapeAll(cps) ==
    IF cps = <<>> THEN <<>> ELSE EscapeChar(Head(cps)) \o EscapeAll(Tail(cps))

RECURSIVE json_dumps(_)
RECURSIVE DumpElements(_)
RECURSIVE DumpMembers(_)
\* the elements of a list, joined by ","
DumpElements(l) ==
    IF l = <<>> THEN <<>>
    ELSE IF Len(l) = 1 THEN json_dumps(l[1])
    ELSE json_dumps(l[1]) \o <<44>> \o DumpElements(Tail(l))
\* the members of a dict as "key":value, joined by ","
DumpMembers(ms) ==
    IF ms = <<>> THEN <<>>
    ELSE LET one == <<34>> \o EscapeAll(ms[1][1]) \o <<34, 58>> \o json_dumps(ms[1][2])
         IN  IF Len(ms) = 1 THEN one ELSE one \o <<44>> \o DumpMembers(Tail(ms))
\* json.dumps(e, separators=(",", ":"))
json_dumps(v) ==
    CASE v.t = "null" -> <<110, 117, 108, 108>>
      [] v.t = "num" -> IF v.n < 0 THEN <<45>> \o Digits(0 - v.n) ELSE Digits(v.n)
      [] v.t = "text" -> <<34>> \o EscapeAll(v.cps) \o <<34>>
      [] v.t = "list" -> <<91>> \o DumpElements(v.l) \o <<93>>
      [] v.t = "dict" -> <<123>> \o DumpMembers(v.members) \o <<125>>

RECURSIVE BitAnd(_, _)
\* a & b of two non-negative ints
BitAnd(a, b) ==
    IF a = 0 \/ b = 0 THEN 0
    ELSE ((a % 2) * (b % 2)) + 2 * BitAnd(a \div 2, b \div 2)

\* a loop body without `code %= 95`
SaStepNoMod(n, ch) ==
    IF ch > 127 THEN Append(n, ch)
    ELSE IF ch < 64 THEN Append(n, Aa[ch + 1])
    ELSE n \o <<46, Aa[BitAnd(ch, 63) + 1]>>
\* a loop body that lets "." through as it is
SaStepKeepsDot(n, ch) ==
    IF ch > 127 \/ ch = 46 THEN Append(n, ch)
    ELSE LET code == ch % 95 IN
         IF code < 64 THEN Append(n, Aa[code + 1])
         ELSE n \o <<46, Aa[BitAnd(code, 63) + 1]>>
\* main.py:39-47: the loop body, on the output so far and one character
SaStep(n, ch) ==
    IF ch > 127 THEN Append(n, ch)
    ELSE LET code == ch % 95 IN
         IF code < 64 THEN Append(n, Aa[code + 1])
         ELSE n \o <<46, Aa[BitAnd(code, 63) + 1]>>

RECURSIVE SaLoop(_, _, _)
\* main.py:38-47: what the loop appends to n for the characters t[lo..hi].
\* The body only ever appends, so the output of a range is the output of
\* its halves one after the other (halving keeps the evaluation shallow).
SaLoop(t, lo, hi) ==
    IF lo > hi THEN <<>>
    ELSE IF lo = hi THEN SaStep(<<>>, t[lo])
    ELSE LET mid == (lo + hi) \div 2
         IN  SaLoop(t, lo, mid) \o SaLoop(t, mid + 1, hi)

\* Sa (main.py:33-48)
Sa(e) ==
    IF Falsy(e) THEN <<>>
    ELSE LET t == json_dumps(e) IN <<49>> \o SaLoop(t, 1, Len(t))

\* main.py:88: {"url": endpoint, "data": {}, "t": t, "st": st} with st = t - 5000
Payload(endpoint, t) ==
    JDict(<< << <<117, 114, 108>>, JText(endpoint) >>,
             << <<100, 97, 116, 97>>, JDict(<<>>) >>,
             << <<116>>, JNum(t) >>,
             << <<115, 116>>, JNum(t - 5000) >> >>)

(***************************************************************************)
(* State.                                                                  *)
(***************************************************************************)
VARIABLES
    sitemap,        \* the document SITEMAP_URL serves: a sequence of <url> elements
    limit,          \* the batch size in force (BATCH_SIZE)
    progressFile,   \* PROGRESS_FILE on disk
    csvFile,        \* CSV_FILE on disk
    started,        \* the two files as the current run of main() found them
    pc,             \* where the current run of main() stands, or how it ended
    endpoints,      \* main(): endpoints
    processed_urls, \* main(): processed_urls
    to_process,     \* main(): to_process
    batch,          \* main(): batch
    i,              \* main(): the number of batch entries the loop has handled
    all_results,    \* main(): all_results
    log,            \* what the loop printed: one entry per fetch attempt
    payload,        \* fetch_product_data(): payload, the descriptor Sa is given
    key,            \* fetch_product_data(): key, what Sa returned
    data,           \* main(): data, the document parse_product is given
    flattened       \* main(): parsed, what parse_product returned or that it raised

vars == << sitemap, limit, progressFile, csvFile, started, pc, endpoints, processed_urls,
           to_process, batch, i, all_results, log, payload, key, data, flattened >>
\* the values of one request and one iteration.  The specifications of the
\* run do not follow them (the answer of the server does not depend on the
\* key, and the loop keeps the record in all_results); the specifications
\* of the encoder and of parse_product do.
locals == << payload, key, data, flattened >>
memory == << endpoints, processed_urls, to_process, batch, i, all_results, log >>
disk == << progressFile, csvFile, started >>

Running == {"init", "listed", "fetching", "committing", "saving"}
Ended == {"all_processed", "done", "sitemap_error", "csv_error", "killed"}

\* a fresh process: nothing computed yet
FreshMemory ==
    /\ endpoints = <<>>
    /\ processed_urls = {}
    /\ to_process = <<>>
    /\ batch = <<>>
    /\ i = 0
    /\ all_results = <<>>
    /\ log = <<>>

NoLocals ==
    /\ payload = JNull
    /\ key = <<>>
    /\ data = JNull
    /\ flattened = Raised

Init ==
    /\ NoLocals
    /\ sitemap \in Sitemaps
    /\ limit = BATCH_SIZE
    /\ progressFile \in {AbsentFile, CorruptFile}
    /\ csvFile \in {AbsentFile, EmptyFile, CorruptFile}
    /\ started = [progress |-> progressFile, csv |-> csvFile]
    /\ pc = "init"
    /\ FreshMemory

\* the memory of a process that ended is gone
Forget ==
    /\ endpoints' = <<>>
    /\ processed_urls' = {}
    /\ to_process' = <<>>
    /\ batch' = <<>>
    /\ i' = 0
    /\ all_results' = <<>>
    /\ log' = <<>>

Min(a, b) == IF a < b THEN a ELSE b

\* a listing whose failure is swallowed: the run goes on with no endpoint
FetchSitemapSwallows ==
    /\ pc = "init"
    /\ \/ /\ endpoints' = <<>>
          /\ pc' = "listed"
       \/ /\ endpoints' = Endpoints(fetch_sitemap(sitemap))
          /\ pc' = "listed"
    /\ UNCHANGED << locals, sitemap, limit, disk, processed_urls, to_process, batch, i,
                    all_results, log >>

\* main.py:155-157: the sitemap request fails (raise_for_status, ET.fromstring)
\* and main() dies, or it yields the endpoints
FetchSitemap ==
    /\ pc = "init"
    /\ \/ /\ pc' = "sitemap_error"
          /\ UNCHANGED endpoints
       \/ /\ endpoints' = Endpoints(fetch_sitemap(sitemap))
          /\ pc' = "listed"
    /\ UNCHANGED << locals, sitemap, limit, disk, processed_urls, to_process, batch, i,
                    all_results, log >>

\* main.py:163: [ep for ep in endpoints if ep["url"] not in processed_urls]
Unprocessed(eps, processed) == SelectSeq(eps, LAMBDA ep : ep.url \notin processed)
\* a slice that takes one entry too many
TruncateOneMore(q, n) == SubSeq(q, 1, Min(n + 1, Len(q)))
\* main.py:164: to_process[:n] for n >= 0
Truncate(q, n) == SubSeq(q, 1, Min(n, Len(q)))

\* a diff without the early return of main.py:166-168
DiffNoReturn ==
    /\ pc = "listed"
    /\ processed_urls' = load_progress(progressFile)
    /\ to_process' = Unprocessed(endpoints, processed_urls')
    /\ batch' = Truncate(to_process', limit)
    /\ pc' = IF batch' = <<>> THEN "committing" ELSE "fetching"
    /\ UNCHANGED << locals, sitemap, limit, disk, endpoints, i, all_results, log >>

\* main.py:159-172: load the progress, diff, return when there is nothing to do
Diff ==
    /\ pc = "listed"
    /\ processed_urls' = load_progress(progressFile)
    /\ to_process' = Unprocessed(endpoints, processed_urls')
    /\ batch' = Truncate(to_process', limit)
    /\ pc' = IF batch' = <<>> THEN "all_processed" ELSE "fetching"
    /\ UNCHANGED << locals, sitemap, limit, disk, endpoints, i, all_results, log >>

\* an iteration that marks the URL before it fetches it
FetchProductMarksFirst ==
    /\ pc = "fetching"
    /\ LET ep == batch[i + 1] IN
       \E resp \in Responses(ep.url) :
          LET parsed == IF resp.ok THEN parse_product(resp.data, ep.lastmod)
                        ELSE Raised
          IN  /\ processed_urls' = processed_urls \cup {ep.url}
              /\ IF parsed.ok
                 THEN /\ all_results' = Append(all_results, parsed.rec)
                      /\ log' = Append(log, [url |-> ep.url, ok |-> TRUE, slept |-> TRUE])
                 ELSE /\ log' = Append(log, [url |-> ep.url, ok |-> FALSE, slept |-> FALSE])
                      /\ UNCHANGED all_results
    /\ i' = i + 1
    /\ pc' = IF i' = Len(batch) THEN "committing" ELSE "fetching"
    /\ UNCHANGED << locals, sitemap, limit, disk, endpoints, to_process, batch >>

\* an iteration whose failure ends the loop
FetchProductStopsOnError ==
    /\ pc = "fetching"
    /\ i' = i + 1
    /\ LET ep == batch[i + 1] IN
       \E resp \in Responses(ep.url) :
          LET parsed == IF resp.ok THEN parse_product(resp.data, ep.lastmod)
                        ELSE Raised
          IN  IF parsed.ok
              THEN /\ all_results' = Append(all_results, parsed.rec)
                   /\ processed_urls' = processed_urls \cup {ep.url}
                   /\ log' = Append(log, [url |-> ep.url, ok |-> TRUE, slept |-> TRUE])
                   /\ pc' = IF i' = Len(batch) THEN "committing" ELSE "fetching"
              ELSE /\ log' = Append(log, [url |-> ep.url, ok |-> FALSE, slept |-> FALSE])
                   /\ pc' = "committing"
                   /\ UNCHANGED << all_results, processed_urls >>
    /\ UNCHANGED << locals, sitemap, limit, disk, endpoints, to_process, batch >>

\* main.py:173-182: one iteration of the loop, on batch[i]
FetchProduct ==
    /\ pc = "fetching"
    /\ LET ep == batch[i + 1] IN
       \E resp \in Responses(ep.url) :
          LET parsed == IF resp.ok THEN parse_product(resp.data, ep.lastmod)
                        ELSE Raised
          IN  IF parsed.ok
              THEN /\ all_results' = Append(all_results, parsed.rec)
                   /\ processed_urls' = processed_urls \cup {ep.url}
                   /\ log' = Append(log, [url |-> ep.url, ok |-> TRUE, slept |-> TRUE])
              ELSE /\ log' = Append(log, [url |-> ep.url, ok |-> FALSE, slept |-> FALSE])
                   /\ UNCHANGED << all_results, processed_urls >>
    /\ i' = i + 1
    /\ pc' = IF i' = Len(batch) THEN "committing" ELSE "fetching"
    /\ UNCHANGED << locals, sitemap, limit, disk, endpoints, to_process, batch >>

\* a commit that replaces an unparseable store instead of dying on it
CommitOverwritesCorrupt ==
    /\ pc = "committing"
    /\ IF all_results = <<>>
       THEN /\ pc' = "saving"
            /\ UNCHANGED csvFile
       ELSE /\ csvFile' = IF csvFile.kind = "corrupt"
                          THEN to_csv(json_normalize(all_results))
                          ELSE WriteStore(csvFile, all_results)
            /\ pc' = "saving"
    /\ UNCHANGED << locals, sitemap, limit, progressFile, started, memory >>

\* main.py:184-205: rewrite the CSV; pd.read_csv raises on an unparseable file
\* and main() dies
Commit ==
    /\ pc = "committing"
    /\ IF all_results = <<>>
       THEN /\ pc' = "saving"
            /\ UNCHANGED csvFile
       ELSE IF csvFile.kind = "corrupt"
       THEN /\ pc' = "csv_error"
            /\ UNCHANGED csvFile
       ELSE /\ csvFile' = WriteStore(csvFile, all_results)
            /\ pc' = "saving"
    /\ UNCHANGED << locals, sitemap, limit, progressFile, started, memory >>

\* main.py:208-209
SaveProgress ==
    /\ pc = "saving"
    /\ progressFile' \in save_progress(processed_urls)
    /\ pc' = "done"
    /\ UNCHANGED << locals, sitemap, limit, csvFile, started, memory >>

\* the process is killed between two steps; its memory is lost
Kill ==
    /\ pc \in Running
    /\ pc' = "killed"
    /\ started' = [progress |-> progressFile, csv |-> csvFile]
    /\ Forget
    /\ UNCHANGED << locals, sitemap, limit, progressFile, csvFile >>

\* main() is invoked again (the scraper is run daily) on the same files
Rerun ==
    /\ pc \in Ended
    /\ RowCount(csvFile) + limit <= MaxRows
    /\ pc' = "init"
    /\ started' = [progress |-> progressFile, csv |-> csvFile]
    /\ Forget
    /\ UNCHANGED << locals, sitemap, limit, progressFile, csvFile >>

Next ==
    \/ FetchSitemap
    \/ Diff
    \/ FetchProduct
    \/ Commit
    \/ SaveProgress
    \/ Kill
    \/ Rerun

Spec == Init /\ [][Next]_vars

(***************************************************************************)
(* The diff step alone (main.py:159-168), from every sitemap, progress     *)
(* file and batch limit of the bounds.                                     *)
(***************************************************************************)
\* the progress files a run can find: absent, unparseable, or a list of
\* endpoints (of this sitemap or of an earlier one)
ProgressFiles ==
    {AbsentFile, CorruptFile} \cup
    {JsonFile(list) : list \in SeqsUpTo(AllEndpointUrls \cup {"/mobiles/p4"}, MaxFeed)}

DiffInit ==
    /\ NoLocals
    /\ sitemap \in Sitemaps
    /\ limit \in 1..MaxLimit
    /\ progressFile \in ProgressFiles
    /\ csvFile = AbsentFile
    /\ started = [progress |-> progressFile, csv |-> csvFile]
    /\ pc = "listed"
    /\ endpoints = Endpoints(fetch_sitemap(sitemap))
    /\ processed_urls = {}
    /\ to_process = <<>>
    /\ batch = <<>>
    /\ i = 0
    /\ all_results = <<>>
    /\ log = <<>>

DiffNext == Diff

DiffSpec == DiffInit /\ [][DiffNext]_vars

(***************************************************************************)
(* The encoder alone: Sa applied to a descriptor.                          *)
(***************************************************************************)
\* longest sample text
MaxText == 2
\* control characters, '"', '.', '/', '1', '@', '\', '^', '_', 'p', DEL,
\* e-acute and an emoji (outside the basic plane)
SampleChars == {1, 10, 34, 46, 47, 49, 64, 92, 94, 95, 112, 127, 233, 128512}
Texts == UNION {[1..n -> SampleChars] : n \in 0..MaxText}
\* int(time.time() * 1000) (main.py:86)
ClockSamples == {5000, 1234567890}
\* "/mobiles/"
MobilesPrefix == <<47, 109, 111, 98, 105, 108, 101, 115, 47>>
Descriptors ==
    {JNull, JNum(0), JNum(7), JDict(<<>>), JList(<<>>), JList(<<JNull, JNum(0 - 3)>>)}
    \cup {JText(s) : s \in Texts}
    \cup {Payload(MobilesPrefix \o s, t) : s \in Texts, t \in ClockSamples}

EncInit ==
    /\ payload \in Descriptors
    /\ key = <<>>
    /\ data = JNull
    /\ flattened = Raised
    /\ pc = "encode"
    /\ sitemap = <<>>
    /\ limit = BATCH_SIZE
    /\ progressFile = AbsentFile
    /\ csvFile = AbsentFile
    /\ started = [progress |-> progressFile, csv |-> csvFile]
    /\ FreshMemory

\* main.py:89: key = Sa(payload)
Encode ==
    /\ pc = "encode"
    /\ key' = Sa(payload)
    /\ pc' = "encoded"
    /\ UNCHANGED << payload, data, flattened, sitemap, limit, disk, memory >>

EncNext == Encode

EncSpec == EncInit /\ [][EncNext]_vars

(***************************************************************************)
(* parse_product alone, on documents with optional parts absent or null.   *)
(***************************************************************************)
\* a dict with no key
NoKey == [x \in {} |-> x]
\* the dicts that have the key with one of the values, or do not have it
Optional(k, values) == {NoKey} \cup {(k :> v) : v \in values}

Categories ==
    { JObj([title |-> JStr("General")]),
      JObj([title |-> JStr("General"), items |-> JNull]),
      JObj([items |-> JNull]),
      JObj([title |-> JStr("General"),
            items |-> JList(<<JObj([title |-> JStr("OS"),
                                    description |-> JStr("Android")])>>)]) }
Items ==
    { f1 @@ f2 @@ f3 @@ f4 :
        f1 \in Optional("name", {JStr("Phone 1")}),
        f2 \in Optional("brand", {JNull, EmptyObj, JObj([name |-> JStr("Acme")])}),
        f3 \in Optional("relatedItems",
                        {JNull, EmptyObj, JObj([products |-> JNull]),
                         JObj([products |-> JList(<<
                             JObj([name |-> JStr("Phone 2"), price |-> JNum(200)])>>)])}),
        f4 \in Optional("fullSpecs",
                        {JNull, JList(<<>>)} \cup {JList(<<c>>) : c \in Categories}) }
Documents ==
    {EmptyObj, JObj([item |-> JNull])} \cup {JObj([item |-> JObj(f)]) : f \in Items}
LastMods == {JNull, JStr("2024-01-01")}

FlattenInit ==
    /\ data \in Documents
    /\ flattened = Raised
    /\ payload = JNull
    /\ key = <<>>
    /\ pc = "flatten"
    /\ sitemap = <<>>
    /\ limit = BATCH_SIZE
    /\ progressFile = AbsentFile
    /\ csvFile = AbsentFile
    /\ started = [progress |-> progressFile, csv |-> csvFile]
    /\ FreshMemory

\* main.py:176: parsed = parse_product(data, ep["lastmod"])
Flatten ==
    /\ pc = "flatten"
    /\ \E lastmod \in LastMods : flattened' = parse_product(data, lastmod)
    /\ pc' = "parsed"
    /\ UNCHANGED << payload, key, data, sitemap, limit, disk, memory >>

FlattenNext == Flatten

FlattenSpec == FlattenInit /\ [][FlattenNext]_vars

(***************************************************************************)
(* The scraper invoked again and again on a fixed feed, where the listing, *)
(* the files and the process are sound and an endpoint either fails on     *)
(* every request or answers every request.                                 *)
(***************************************************************************)
\* the endpoints whose request fails on every attempt
Unreachable == {"/mobiles/p1", "/mobiles/p2"}
\* every endpoint a feed of the model can hold
FeedEndpoints ==
    {[url |-> MatchGroup0(x.url), lastmod |-> x.lastmod] :
        x \in {y \in SitemapElements : Matches(y.url)}}
\* main.py:175-176 for each endpoint: the request raises when the endpoint is
\* unreachable, and the document of the endpoint is parsed otherwise
RetryOutcome ==
    [ep \in FeedEndpoints |->
        IF ep.url \in Unreachable THEN Raised
        ELSE parse_product(Catalog(ep.url), ep.lastmod)]

RetryInit ==
    /\ NoLocals
    /\ sitemap \in Sitemaps
    /\ limit = BATCH_SIZE
    /\ progressFile \in {AbsentFile, CorruptFile}
    /\ csvFile \in {AbsentFile, EmptyFile}
    /\ started = [progress |-> progressFile, csv |-> csvFile]
    /\ pc = "init"
    /\ FreshMemory

\* main.py:155-157, the listing succeeds
ListFeed ==
    /\ pc = "init"
    /\ endpoints' = Endpoints(fetch_sitemap(sitemap))
    /\ pc' = "listed"
    /\ UNCHANGED << locals, sitemap, limit, disk, processed_urls, to_process, batch, i,
                    all_results, log >>

\* main.py:173-182 with the outcome RetryOutcome gives
FetchProductRetry ==
    /\ pc = "fetching"
    /\ LET ep == batch[i + 1]
           outcome == RetryOutcome[ep]
       IN  IF outcome.ok
           THEN /\ all_results' = Append(all_results, outcome.rec)
                /\ processed_urls' = processed_urls \cup {ep.url}
                /\ log' = Append(log, [url |-> ep.url, ok |-> TRUE, slept |-> TRUE])
           ELSE /\ log' = Append(log, [url |-> ep.url, ok |-> FALSE, slept |-> FALSE])
                /\ UNCHANGED << all_results, processed_urls >>
    /\ i' = i + 1
    /\ pc' = IF i' = Len(batch) THEN "committing" ELSE "fetching"
    /\ UNCHANGED << locals, sitemap, limit, disk, endpoints, to_process, batch >>

\* main() is invoked again on the same files, whenever the last run has ended
Reinvoke ==
    /\ pc \in Ended
    /\ pc' = "init"
    /\ started' = [progress |-> progressFile, csv |-> csvFile]
    /\ Forget
    /\ UNCHANGED << locals, sitemap, limit, progressFile, csvFile >>

RetryNext ==
    \/ ListFeed
    \/ Diff
    \/ FetchProductRetry
    \/ Commit
    \/ SaveProgress
    \/ Reinvoke

RetrySpec == RetryInit /\ [][RetryNext]_vars

(***************************************************************************)
(* Vocabulary of the properties.                                           *)
(***************************************************************************)
\* the identifiers a progress file holds, read off the file itself
PersistedIds(file) ==
    {u \in AllEndpointUrls \cup {"/mobiles/p4"} :
        file.kind = "json" /\ \E j \in 1..Len(file.list) : file.list[j] = u}
\* the positions of the feed entries that are not in the set proc
UnprocessedAt(eps, proc) == {k \in 1..Len(eps) : eps[k].url \notin proc}
\* the n-th smallest element of a set of positions
NthOf(U, n) == CHOOSE k \in U : Cardinality({m \in U : m < k}) = n - 1
LogUrls == {log[j].url : j \in 1..Len(log)}
OkCount == Cardinality({j \in 1..Len(log) : log[j].ok})
AllOk == \A j \in 1..Len(log) : log[j].ok
\* the name the API serves for an endpoint, as the CSV holds it
ProductName(u) == DictGetNone(DictGet(Catalog(u), "item", EmptyObj), "name").s
\* the same, for every endpoint of the model
StoredName == [u \in AllEndpointUrls |-> ProductName(u)]
\* the rows of the store that hold the product of endpoint u
RowsOf(file, u) ==
    {r \in 1..RowCount(file) :
        \E j \in 1..Len(file.header) :
            file.header[j] = "Name" /\ file.rows[r][j] = ProductName(u)}
\* the union of the keys of the records
FieldsOf(records) == UNION {Keys(records[j]) : j \in 1..Len(records)}
\* a header in strictly increasing lexicographic order
Lexicographic(header) ==
    \A j \in 1..(Len(header) - 1) : ColRank(header[j]) < ColRank(header[j + 1])

(***************************************************************************)
(* C1: at-most-once processing per identifier: no identifier has more than *)
(* one row in the store, no identifier is fetched successfully twice in a  *)
(* run, and no identifier of the persisted processed set is fetched.       *)
(* Refuted: a sitemap that names /mobiles/p1 twice yields two rows.        *)
(***************************************************************************)
C1_AtMostOnce ==
    /\ \A u \in AllEndpointUrls : Cardinality(RowsOf(csvFile, u)) <= 1
    /\ \A j, k \in 1..Len(log) :
          (j < k /\ log[j].ok /\ log[k].ok) => log[j].url /= log[k].url
    /\ pc \in {"fetching", "committing"} =>
          LogUrls \cap PersistedIds(progressFile) = {}

(***************************************************************************)
(* C2: the batch of the diff step holds no entry whose identifier is in    *)
(* the processed set, is at most limit long, and is the first              *)
(* min(limit, number of unprocessed) unprocessed entries of the feed in    *)
(* feed order; it is empty when the feed is empty or all is processed.     *)
(* Checked under DiffSpec.                                                 *)
(***************************************************************************)
C2_BatchIsFirstUnprocessed ==
    pc \in {"fetching", "all_processed"} =>
        LET U == UnprocessedAt(endpoints, processed_urls) IN
        /\ \A j \in 1..Len(batch) : batch[j].url \notin processed_urls
        /\ Len(batch) <= limit
        /\ Len(batch) = Min(limit, Cardinality(U))
        /\ \A j \in 1..Len(batch) : batch[j] = endpoints[NthOf(U, j)]
        /\ (endpoints = <<>> \/ U = {}) => batch = <<>>
        /\ (batch = <<>>) <=> (pc = "all_processed")

\* the limit cuts the unprocessed entries short, and a processed entry is skipped
C2_Witness ==
    /\ pc = "fetching"
    /\ Len(batch) = limit
    /\ Cardinality(UnprocessedAt(endpoints, processed_urls)) > limit
    /\ endpoints[1].url \in processed_urls

(***************************************************************************)
(* C3: the persisted processed set only grows: at every point of a run     *)
(* the identifiers in the progress file include all those the file held    *)
(* when the run started.                                                   *)
(***************************************************************************)
C3_PersistedSetGrows ==
    PersistedIds(started.progress) \subseteq PersistedIds(progressFile)

\* a run that found identifiers persisted has saved more
C3_Witness ==
    /\ pc = "done"
    /\ PersistedIds(started.progress) /= {}
    /\ PersistedIds(progressFile) /= PersistedIds(started.progress)

(***************************************************************************)
(* C4: one iteration of the fetch loop adds the entry's identifier to the  *)
(* processed set and its record to the accumulator when the fetch and the  *)
(* flatten succeed, and changes neither when one of them fails; nothing    *)
(* else is ever added.                                                     *)
(***************************************************************************)
C4_MarkedIffFetched ==
    [][ (pc = "fetching" /\ i' = i + 1) =>
          LET ep == batch[i + 1]
              e == log'[Len(log')]
          IN  /\ log' = Append(log, e)
              /\ e.url = ep.url
              /\ e.ok => /\ Len(all_results') = Len(all_results) + 1
                         /\ SubSeq(all_results', 1, Len(all_results)) = all_results
                         /\ Lookup(all_results'[Len(all_results')], "Last modified")
                               = ep.lastmod
                         /\ processed_urls' = processed_urls \cup {ep.url}
              /\ ~e.ok => /\ all_results' = all_results
                          /\ processed_urls' = processed_urls
              /\ processed_urls' \ processed_urls \subseteq {ep.url} ]_vars

\* a failed entry was skipped and the next one fetched
C4_Witness ==
    /\ Len(log) = 2
    /\ ~log[1].ok
    /\ log[2].ok
    /\ Len(all_results) = 1
    /\ log[1].url \notin processed_urls
    /\ log[2].url \in processed_urls

(***************************************************************************)
(* C5: an identifier whose fetch failed in a run is absent from the        *)
(* processed set the run persists, and the next run over the same sitemap  *)
(* and limit has it in its batch again.                                    *)
(* Refuted: with /mobiles/p1 listed twice, the first fetch can fail and    *)
(* the second succeed; the run then persists /mobiles/p1.                  *)
(***************************************************************************)
C5_FailedIsRetried ==
    pc = "done" =>
        \A j \in 1..Len(log) :
            ~log[j].ok =>
                LET U == UnprocessedAt(endpoints, PersistedIds(progressFile)) IN
                /\ log[j].url \notin PersistedIds(progressFile)
                /\ \E k \in U : /\ endpoints[k].url = log[j].url
                                /\ Cardinality({m \in U : m < k}) < limit

(***************************************************************************)
(* C6: a run with k unprocessed entries and limit L makes exactly          *)
(* min(k, L) fetch attempts, on the first min(k, L) unprocessed entries in *)
(* feed order, whatever failed before; when all succeed exactly their      *)
(* identifiers are newly marked and persisted, and every entry still       *)
(* unprocessed follows the batch in the feed.                              *)
(***************************************************************************)
C6_ExactlyMinFetches ==
    pc \in {"committing", "saving", "done", "csv_error"} =>
        LET before == PersistedIds(started.progress)
            U == UnprocessedAt(endpoints, before)
            m == Min(limit, Cardinality(U))
        IN  /\ Len(log) = m
            /\ \A j \in 1..m : log[j].url = endpoints[NthOf(U, j)].url
            /\ AllOk => processed_urls \ before = LogUrls
            /\ (AllOk /\ pc = "done") =>
                  /\ PersistedIds(progressFile) = before \cup LogUrls
                  /\ \A k \in UnprocessedAt(endpoints, PersistedIds(progressFile)) :
                        k > NthOf(U, m)

\* the limit cut the batch short, every fetch succeeded, and an entry is
\* left for the next run
C6_Witness ==
    /\ pc = "done"
    /\ AllOk
    /\ Len(log) = limit
    /\ Len(to_process) > limit
    /\ UnprocessedAt(endpoints, PersistedIds(progressFile)) /= {}

(***************************************************************************)
(* C7: a run whose batch is empty ends at once: it fetches nothing and     *)
(* leaves the CSV and the progress file as it found them; no run goes on   *)
(* to fetch, commit or save with an empty batch.                           *)
(***************************************************************************)
C7_EmptyBatchNoWrites ==
    /\ pc = "all_processed" =>
          /\ batch = <<>>
          /\ log = <<>>
          /\ all_results = <<>>
          /\ progressFile = started.progress
          /\ csvFile = started.csv
    /\ pc \in {"fetching", "committing", "saving", "done", "csv_error"} =>
          batch /= <<>>

\* every identifier of the sitemap was already persisted
C7_Witness ==
    /\ pc = "all_processed"
    /\ endpoints /= <<>>
    /\ \A k \in 1..Len(endpoints) : endpoints[k].url \in PersistedIds(progressFile)

(***************************************************************************)
(* C8 as claimed: from an empty prior state, a completed run over n        *)
(* matching entries (n at most the limit) whose fetches all succeed leaves *)
(* n rows, n persisted identifiers and the union of the records' fields as *)
(* columns; every completed run adds one row per successful fetch.         *)
(* Refuted: two entries of the same identifier persist one identifier.     *)
(***************************************************************************)
EmptyPrior ==
    /\ PersistedIds(started.progress) = {}
    /\ started.csv.kind \in {"absent", "empty"}
AllFetched ==
    /\ pc = "done"
    /\ endpoints /= <<>>
    /\ Len(endpoints) <= limit
    /\ Len(log) = Len(endpoints)
    /\ AllOk
OneRowPerFetch == pc = "done" => RowCount(csvFile) = RowCount(started.csv) + OkCount

C9_ColumnsAreUnion ==
    /\ (pc \in {"saving", "done"} /\ all_results /= <<>>) =>
          HeaderSet(csvFile) = HeaderSet(started.csv) \cup FieldsOf(all_results)
    /\ HeaderSet(started.csv) \subseteq HeaderSet(csvFile)

\* an append that brought new columns to a store that had columns of its own
C9_Witness ==
    /\ pc = "done"
    /\ started.csv.kind = "table"
    /\ HeaderSet(started.csv) /= HeaderSet(csvFile)
    /\ FieldsOf(all_results) /= HeaderSet(csvFile)

(***************************************************************************)
(* C10 as claimed: whenever the store has been written, its header is in   *)
(* lexicographic order, the first write into an absent or empty store      *)
(* included.                                                               *)
(* Refuted: the first write keeps the records' key order (Name is written  *)
(* before Brand).                                                          *)
(***************************************************************************)
C10_Original == csvFile.kind = "table" => Lexicographic(csvFile.header)

(***************************************************************************)
(* C10 amended: every rewrite of a present, non-empty store leaves its     *)
(* header in lexicographic order; the first write into an absent or empty  *)
(* store keeps the records' keys in the order of their first appearance.   *)
(***************************************************************************)
FirstRecordWith(c) ==
    CHOOSE r \in 1..Len(all_results) :
        /\ c \in Keys(all_results[r])
        /\ \A q \in 1..(r - 1) : c \notin Keys(all_results[q])
PositionIn(rec, c) == CHOOSE p \in 1..Len(rec) : rec[p][1] = c

C10_RewriteIsLexicographic ==
    (pc = "saving" /\ all_results /= <<>>) =>
        IF started.csv.kind = "table"
        THEN Lexicographic(csvFile.header)
        ELSE \A j, k \in 1..Len(csvFile.header) :
                j < k =>
                    LET rj == FirstRecordWith(csvFile.header[j])
                        rk == FirstRecordWith(csvFile.header[k])
                    IN  \/ rj < rk
                        \/ /\ rj = rk
                           /\ PositionIn(all_results[rj], csvFile.header[j])
                                 < PositionIn(all_results[rj], csvFile.header[k])

\* a store whose first write was out of order has been rewritten
C10_Witness ==
    /\ pc = "done"
    /\ started.csv.kind = "table"
    /\ ~Lexicographic(started.csv.header)
    /\ RowCount(csvFile) > RowCount(started.csv)

\* the place of column c in a header; 0 when the header has no such column
ColumnOf(header, c) ==
    IF \E j \in 1..Len(header) : header[j] = c
    THEN CHOOSE j \in 1..Len(header) : header[j] = c
    ELSE 0
\* the text of a row at a place of the header; "" at place 0
CellAt(row, j) == IF j = 0 THEN "" ELSE row[j]

C12_CorruptStoreIsFatal ==
    /\ pc = "csv_error" =>
          /\ csvFile = started.csv
          /\ progressFile = started.progress
          /\ LogUrls \cap PersistedIds(progressFile) = {}
    /\ (started.csv.kind = "corrupt" /\ pc \in {"saving", "done"}) =>
          /\ all_results = <<>>
          /\ csvFile = started.csv

\* a run fetched a record and died on the unparseable store
C12_Witness ==
    /\ pc = "csv_error"
    /\ OkCount >= 1
    /\ csvFile.kind = "corrupt"

(***************************************************************************)
(* C13: a failure of the feed listing ends the run before any item is      *)
(* fetched and before the progress file or the store is touched; a run     *)
(* goes past the listing only with every matching entry of the feed.       *)
(***************************************************************************)
C13_ListingFailureAborts ==
    /\ pc = "sitemap_error" =>
          /\ log = <<>>
          /\ all_results = <<>>
          /\ processed_urls = {}
          /\ csvFile = started.csv
          /\ progressFile = started.progress
    /\ pc = "listed" =>
          Len(endpoints) =
              Cardinality({k \in 1..Len(sitemap) :
                              /\ Len(sitemap[k].url) >= 2
                              /\ sitemap[k].url[Len(sitemap[k].url) - 1] = PRODUCT_TYPE})

\* the listing failed in a run that found identifiers persisted and a feed
\* with unprocessed entries
C13_Witness ==
    /\ pc = "sitemap_error"
    /\ PersistedIds(progressFile) /= {}
    /\ \E k \in 1..Len(sitemap) :
          /\ Matches(sitemap[k].url)
          /\ MatchGroup0(sitemap[k].url) \notin PersistedIds(progressFile)

(***************************************************************************)
(* C14: loading the progress yields the empty set when the file is absent  *)
(* or unparseable, and no error; otherwise it yields exactly the set that  *)
(* was last saved.                                                         *)
(***************************************************************************)
C14_LoadReturnsLastSaved ==
    /\ (pc \in {"fetching", "all_processed"} /\ log = <<>>) =>
          processed_urls = IF progressFile.kind = "json"
                           THEN PersistedIds(progressFile)
                           ELSE {}
    /\ pc = "done" => PersistedIds(progressFile) = processed_urls
    /\ pc = "done" => progressFile.kind = "json"

\* a run loaded the two identifiers an earlier run saved
C14_Witness ==
    /\ pc \in {"fetching", "all_processed"}
    /\ log = <<>>
    /\ progressFile.kind = "json"
    /\ Cardinality(processed_urls) >= 2

(***************************************************************************)
(* C20: in every reachable state, a run killed between two steps           *)
(* included, every identifier the progress file holds has a row in the     *)
(* store: the store is rewritten before the progress is saved.             *)
(***************************************************************************)
C20_ProcessedHasRow ==
    LET ids == PersistedIds(progressFile) IN
    ids /= {} =>
        /\ csvFile.kind = "table"
        /\ LET name == ColumnOf(csvFile.header, "Name")
               stored == {CellAt(csvFile.rows[r], name) : r \in 1..Len(csvFile.rows)}
           IN  \A u \in ids : StoredName[u] \in stored

\* a run was killed after the rewrite and before the save: the store holds a
\* row of an identifier that is not persisted, next to persisted ones
C20_Witness ==
    /\ pc = "killed"
    /\ PersistedIds(progressFile) /= {}
    /\ \E u \in AllEndpointUrls :
          /\ u \notin PersistedIds(progressFile)
          /\ RowsOf(csvFile, u) /= {}

(***************************************************************************)
(* C18: within a run every fetch attempt, whether it succeeds or fails,    *)
(* is followed by the politeness delay before the next attempt is made.    *)
(***************************************************************************)
C18_DelayAfterEveryAttempt ==
    \A j \in 1..(Len(log) - 1) : log[j].slept

\* the symbols of the alphabet
AaSet == {Aa[j] : j \in 1..Len(Aa)}
\* the characters of a text the encoder writes as "." and a symbol
Escaped(t) == {k \in 1..Len(t) : t[k] <= 127 /\ t[k] % 95 >= 64}
\* the positions of the "." in a text
Dots(n) == {j \in 1..Len(n) : n[j] = 46}

(***************************************************************************)
(* C15: for a non-empty descriptor the encoder returns "1" followed, for   *)
(* each character of the compact JSON text in order, by the character      *)
(* itself when its code point is above 127, and otherwise, with r the code *)
(* point mod 95, by the alphabet symbol at index r when r < 64 and by "."  *)
(* and the alphabet symbol at index r - 64 when r is in 64..94; a falsy    *)
(* descriptor gives the empty string.  Checked under EncSpec.              *)
(***************************************************************************)
C15_EncoderOutput ==
    pc = "encoded" =>
        IF Falsy(payload) THEN key = <<>>
        ELSE LET t == json_dumps(payload)
                 \* where the output of character k starts
                 At(k) == 1 + k + Cardinality({m \in Escaped(t) : m < k})
             IN  /\ Len(key) = 1 + Len(t) + Cardinality(Escaped(t))
                 /\ key[1] = 49
                 /\ \A k \in 1..Len(t) :
                       LET r == t[k] % 95 IN
                       IF t[k] > 127 THEN key[At(k)] = t[k]
                       ELSE IF r < 64 THEN key[At(k)] = Aa[r + 1]
                       ELSE /\ r < 95
                            /\ key[At(k)] = 46
                            /\ key[At(k) + 1] = Aa[(r - 64) + 1]

\* a request payload was encoded: its "{" (123) wrapped around mod 95 and its
\* text had a character written with "."
C15_Witness ==
    /\ pc = "encoded"
    /\ payload.t = "dict"
    /\ payload.members /= <<>>
    /\ json_dumps(payload)[1] = 123
    /\ key[2] = Aa[(123 % 95) + 1]
    /\ Escaped(json_dumps(payload)) /= {}

(***************************************************************************)
(* C16: every character of the encoder's output is a character above 127,  *)
(* a symbol of the alphabet (the leading "1" is one) or a "."; every "."   *)
(* is followed at once by a symbol of the alphabet, so it is never last;   *)
(* and the "." of the output are exactly the escape marks: none comes      *)
(* from a "." of the input.  Checked under EncSpec.                        *)
(***************************************************************************)
C16_OutputAlphabet ==
    pc = "encoded" =>
        /\ \A j \in 1..Len(key) : key[j] > 127 \/ key[j] \in AaSet \/ key[j] = 46
        /\ key /= <<>> => key[1] = 49
        /\ \A j \in Dots(key) : j < Len(key) /\ key[j + 1] \in AaSet
        /\ ~Falsy(payload) =>
              Cardinality(Dots(key)) = Cardinality(Escaped(json_dumps(payload)))

\* the text had a "." and an escaped character: the output has the one "."
\* of the escape
C16_Witness ==
    /\ pc = "encoded"
    /\ ~Falsy(payload)
    /\ Dots(json_dumps(payload)) /= {}
    /\ Cardinality(Dots(key)) = 1

(***************************************************************************)
(* C17: for every document, those whose item, brand, relatedItems,         *)
(* fullSpecs or a category's items are absent or null included,            *)
(* parse_product does not fail and returns a record with the seven core    *)
(* fields.  Checked under FlattenSpec.                                     *)
(***************************************************************************)
C17_FlattenNeverFails ==
    pc = "parsed" =>
        /\ flattened.ok
        /\ {"Name", "Brand", "Price", "Price Drop", "Price Drop Amount",
            "Last modified", "Related Items"} \subseteq Keys(flattened.rec)

\* the identifiers of the feed
FeedIds == {MatchGroup0(sitemap[k].url) :
               k \in {m \in 1..Len(sitemap) : Matches(sitemap[m].url)}}

(***************************************************************************)
(* C19: with a fixed feed and a positive batch limit, when the scraper is  *)
(* invoked again and again, every identifier of the feed whose fetch can   *)
(* succeed is eventually in the progress file, even when other identifiers *)
(* fail on every attempt; and a run that finds every identifier processed  *)
(* ends without a fetch and without a write.  Checked under RetrySpec,     *)
(* where a run is a function of the files it finds: a run that completes   *)
(* and leaves the progress file with the identifiers it found is repeated  *)
(* by every later run, so what the claim says of the infinite sequence of  *)
(* runs is that such a run leaves no identifier of the feed that can be    *)
(* fetched out of the progress file.                                       *)
(***************************************************************************)
C19_EveryHealthyIdIsPersisted ==
    /\ (pc = "done" /\ PersistedIds(progressFile) = PersistedIds(started.progress)) =>
          (FeedIds \ Unreachable) \subseteq PersistedIds(progressFile)
    /\ pc = "all_processed" =>
          /\ FeedIds \subseteq PersistedIds(progressFile)
          /\ log = <<>>
          /\ csvFile = started.csv
          /\ progressFile = started.progress


=============================================================================
